---- MODULE Spec2Model ----
(***************************************************************************)
(* The contagion simulation of src/model.py: Point, Cell and Model.        *)
(*                                                                         *)
(* Coordinates are integers: random() is drawn from a finite grid of       *)
(* fractions chosen so that every location and direction is an integer,    *)
(* and the angle of a direction is a multiple of a quarter turn.           *)
(* A Model.tick() call is followed statement by statement: the time        *)
(* increment, one step per cell of the motion loop, one step per pair of   *)
(* the contact scan.                                                       *)
(***************************************************************************)
EXTENDS Integers, Sequences, FiniteSets, TLC

VARIABLES
    pc,          \* where the driver is: "new", "failed", "create", "idle", "move", "scan"
    args,        \* the arguments Model.__init__ was called with
    population,  \* Model.population: a sequence of cells
    time,        \* Model.time
    cur,         \* position of `for cell in self.population` in Model.tick (0-based)
    i,           \* check_contacts: outer index (0-based)
    j,           \* check_contacts: inner index (0-based)
    old,         \* history: the population when the running/last tick() was called
    returned,    \* <<b>>: what is_complete() last returned since the last tick(); <<>>: not asked
    met,         \* history: the cells (0-based) that check_contacts found within
                 \* CELL_RADIUS of a cell that was infected when their pair was tested
    infected_at  \* history, per cell: Model.time when the cell was first seen infected
                 \* (0: as __init__ left it; t: by contact_with in tick t), -1 if never

vars == <<pc, args, population, time, cur, i, j, old, returned, met, infected_at>>

----------------------------------------------------------------------------
(* exercises.ex09.constants: imported by src/model.py, not part of src/.   *)

VULNERABLE == 0
INFECTED == 1
IMMUNE == -1
\* Scaled down: the number of ticks a cell stays infected.
RECOVERY_PERIOD == 3
\* Scaled down with the bounds: the contact distance.
CELL_RADIUS == 2
BOUNDS_WIDTH == 4
BOUNDS_HEIGHT == 4
MAX_X == BOUNDS_WIDTH \div 2
MIN_X == -MAX_X
MAX_Y == BOUNDS_HEIGHT \div 2
MIN_Y == -MAX_Y
RED == "red"
GRAY == "gray"
GREEN == "green"

----------------------------------------------------------------------------
(* Bounds of the model.                                                    *)

\* Largest `cells` argument tried.
MaxCells == 3

\* Ticks after which the driver stops calling tick().
MaxTime == MaxCells * (RECOVERY_PERIOD - INFECTED + 1) + 1

\* The `speed` arguments tried.
Speeds == {0, 1}

\* random() returns q / BOUNDS_WIDTH (x), q / BOUNDS_HEIGHT (y), q / 4 (angle).
XDraws == 0 .. (BOUNDS_WIDTH - 2)
YDraws == {BOUNDS_HEIGHT \div 2}
AngleDraws == {1, 2}

----------------------------------------------------------------------------
(* class Point                                                             *)

Point(x, y) == [x |-> x, y |-> y]

add(self, other) == Point(self.x + other.x, self.y + other.y)

\* The square of Point.distance: sqrt is increasing, so
\* distance(a, b) < r  iff  distance2(a, b) < r * r  for r >= 0.
distance2(self, other) ==
    (self.x - other.x) * (self.x - other.x) + (self.y - other.y) * (self.y - other.y)

----------------------------------------------------------------------------
(* class Cell                                                              *)

Cell(location, direction) ==
    [location |-> location, direction |-> direction, sickness |-> VULNERABLE]

is_vulnerable(self) == self.sickness = VULNERABLE

\* is_infected written with `>`.
is_infected_strict(self) == self.sickness > INFECTED

is_infected(self) == self.sickness >= INFECTED

is_immune(self) == self.sickness = IMMUNE

contract_disease(self) == [self EXCEPT !.sickness = INFECTED]

immunize(self) == [self EXCEPT !.sickness = IMMUNE]

\* What Cell.color returns; "None" when it falls off its last elif.
color(self) ==
    IF is_infected(self) THEN RED
    ELSE IF is_vulnerable(self) THEN GRAY
    ELSE IF is_immune(self) THEN GREEN
    ELSE "None"

\* Cell.tick with `>=` in its second if: the cell recovers one tick early.
Cell_tick_early(self) ==
    LET moved == [self EXCEPT !.location = add(self.location, self.direction)]
        aged  == IF is_infected(moved)
                 THEN [moved EXCEPT !.sickness = moved.sickness + 1]
                 ELSE moved
    IN  IF aged.sickness >= RECOVERY_PERIOD THEN immunize(aged) ELSE aged

\* Cell.tick adding to the counter of every cell that is not vulnerable.
Cell_tick_not_vulnerable(self) ==
    LET moved == [self EXCEPT !.location = add(self.location, self.direction)]
        aged  == IF ~is_vulnerable(moved)
                 THEN [moved EXCEPT !.sickness = moved.sickness + 1]
                 ELSE moved
    IN  IF aged.sickness > RECOVERY_PERIOD THEN immunize(aged) ELSE aged

\* Cell.tick with its two ifs in the other order: recover first, then count.
Cell_tick_recover_first(self) ==
    LET moved == [self EXCEPT !.location = add(self.location, self.direction)]
        freed == IF moved.sickness > RECOVERY_PERIOD THEN immunize(moved) ELSE moved
    IN  IF is_infected(freed)
        THEN [freed EXCEPT !.sickness = freed.sickness + 1]
        ELSE freed

\* Cell.tick without its second if: the counter grows and the cell never recovers.
Cell_tick_no_recovery(self) ==
    LET moved == [self EXCEPT !.location = add(self.location, self.direction)]
    IN  IF is_infected(moved)
        THEN [moved EXCEPT !.sickness = moved.sickness + 1]
        ELSE moved

Cell_tick(self) ==
    LET moved == [self EXCEPT !.location = add(self.location, self.direction)]
        aged  == IF is_infected(moved)
                 THEN [moved EXCEPT !.sickness = moved.sickness + 1]
                 ELSE moved
    IN  IF aged.sickness > RECOVERY_PERIOD THEN immunize(aged) ELSE aged

\* contact_with without the is_vulnerable tests: any partner of an infected cell contracts.
contact_with_unchecked(self, other) ==
    IF is_infected(self)
    THEN <<self, contract_disease(other)>>
    ELSE IF is_infected(other)
         THEN <<contract_disease(self), other>>
         ELSE <<self, other>>

\* contact_with testing `not is_immune` where the code tests is_vulnerable.
contact_with_reset(self, other) ==
    IF is_infected(self) /\ ~is_immune(other)
    THEN <<self, contract_disease(other)>>
    ELSE IF is_infected(other) /\ ~is_immune(self)
         THEN <<contract_disease(self), other>>
         ELSE <<self, other>>

\* contact_with without its elif branch.
contact_with_oneway(self, other) ==
    IF is_infected(self) /\ is_vulnerable(other)
    THEN <<self, contract_disease(other)>>
    ELSE <<self, other>>

\* contact_with calling contract_disease on the infected cell of the pair.
contact_with_wrong_target(self, other) ==
    IF is_infected(self) /\ is_vulnerable(other)
    THEN <<contract_disease(self), other>>
    ELSE IF is_infected(other) /\ is_vulnerable(self)
         THEN <<self, contract_disease(other)>>
         ELSE <<self, other>>

\* contact_with(self, other): the pair <<self, other>> after the call.
contact_with(self, other) ==
    IF is_infected(self) /\ is_vulnerable(other)
    THEN <<self, contract_disease(other)>>
    ELSE IF is_infected(other) /\ is_vulnerable(self)
         THEN <<contract_disease(self), other>>
         ELSE <<self, other>>

----------------------------------------------------------------------------
(* class Model                                                             *)

\* ValueError with the first check written `<` (a construction with no infection passes).
ValueError_strict(cells, initial_infections, immune) ==
    IF initial_infections < 0
    THEN "Some cells must be initially infected."
    ELSE IF initial_infections >= cells
    THEN "Number of infected cells must be less than total number of cells."
    ELSE IF immune >= cells
    THEN "Number of immune cells must be less than total number of cells."
    ELSE IF immune < 0
    THEN "Number of immune cells must be zero or more."
    ELSE ""

\* The message of the ValueError Model.__init__ raises, "" when it raises none.
ValueError(cells, initial_infections, immune) ==
    IF initial_infections <= 0
    THEN "Some cells must be initially infected."
    ELSE IF initial_infections >= cells
    THEN "Number of infected cells must be less than total number of cells."
    ELSE IF immune >= cells
    THEN "Number of immune cells must be less than total number of cells."
    ELSE IF immune < 0
    THEN "Number of immune cells must be zero or more."
    ELSE ""

\* random() * BOUNDS_WIDTH - MAX_X with random() = qx / BOUNDS_WIDTH, and the same for y.
random_location(qx, qy) ==
    Point((qx * BOUNDS_WIDTH) \div BOUNDS_WIDTH - MAX_X,
          (qy * BOUNDS_HEIGHT) \div BOUNDS_HEIGHT - MAX_Y)

\* cos and sin of 2 * pi * q / 4.
Cos4(q) == CASE q = 0 -> 1 [] q = 1 -> 0 [] q = 2 -> -1 [] q = 3 -> 0
Sin4(q) == CASE q = 0 -> 0 [] q = 1 -> 1 [] q = 2 -> 0 [] q = 3 -> -1

random_direction(speed, q) == Point(Cos4(q) * speed, Sin4(q) * speed)

\* enforce_bounds with `>=` and `<=`: a cell on a bound bounces too.
enforce_bounds_inclusive(cell) ==
    LET dx == IF cell.location.x >= MAX_X \/ cell.location.x <= MIN_X
              THEN -cell.direction.x ELSE cell.direction.x
        dy == IF cell.location.y >= MAX_Y \/ cell.location.y <= MIN_Y
              THEN -cell.direction.y ELSE cell.direction.y
    IN  [cell EXCEPT !.direction = Point(dx, dy)]

\* enforce_bounds without the MIN_X and MIN_Y tests.
enforce_bounds_no_min(cell) ==
    LET dx == IF cell.location.x > MAX_X
              THEN -cell.direction.x ELSE cell.direction.x
        dy == IF cell.location.y > MAX_Y
              THEN -cell.direction.y ELSE cell.direction.y
    IN  [cell EXCEPT !.direction = Point(dx, dy)]

enforce_bounds(cell) ==
    LET dx == IF cell.location.x > MAX_X \/ cell.location.x < MIN_X
              THEN -cell.direction.x ELSE cell.direction.x
        dy == IF cell.location.y > MAX_Y \/ cell.location.y < MIN_Y
              THEN -cell.direction.y ELSE cell.direction.y
    IN  [cell EXCEPT !.direction = Point(dx, dy)]

\* The loop of is_complete from cell n (1-based) on.
RECURSIVE is_complete_from(_, _)
is_complete_from(pop, n) ==
    IF n > Len(pop) THEN TRUE
    ELSE IF is_infected(pop[n]) THEN FALSE
    ELSE is_complete_from(pop, n + 1)

is_complete(pop) == is_complete_from(pop, 1)

\* new_cell with the two checks in the other order: immune first, infected second.
new_cell_swapped(idx, speed, initial_infections, immune, qa, qx, qy) ==
    LET start_direction == random_direction(speed, qa)
        start_location  == random_location(qx, qy)
        cell     == Cell(start_location, start_direction)
        immuned  == IF idx < immune THEN immunize(cell) ELSE cell
    IN  IF idx < initial_infections THEN contract_disease(immuned) ELSE immuned

\* The cell the constructor's loop body builds at index idx (0-based).
new_cell(idx, speed, initial_infections, immune, qa, qx, qy) ==
    LET start_direction == random_direction(speed, qa)
        start_location  == random_location(qx, qy)
        cell     == Cell(start_location, start_direction)
        infected == IF idx < initial_infections THEN contract_disease(cell) ELSE cell
    IN  IF idx < immune THEN immunize(infected) ELSE infected

----------------------------------------------------------------------------
(* The state machine.                                                      *)

\* The infection times of a population nothing has happened to yet.
first_seen(pop) == [n \in 1 .. Len(pop) |-> IF is_infected(pop[n]) THEN 0 ELSE -1]

NoArgs == [cells |-> 0, speed |-> 0, initial_infections |-> 0, immune |-> 0]

Init ==
    /\ pc = "new"
    /\ args = NoArgs
    /\ population = <<>>
    /\ time = 0
    /\ cur = 0
    /\ i = 0
    /\ j = 0
    /\ old = <<>>
    /\ returned = <<>>
    /\ met = {}
    /\ infected_at = <<>>

\* Model.__init__, lines 101-110: the argument checks and the empty population.
Model_init(cells, speed, initial_infections, immune) ==
    /\ pc = "new"
    /\ args' = [cells |-> cells, speed |-> speed,
                initial_infections |-> initial_infections, immune |-> immune]
    /\ IF ValueError(cells, initial_infections, immune) # ""
       THEN pc' = "failed" /\ UNCHANGED population
       ELSE pc' = "create" /\ population' = <<>>
    /\ UNCHANGED <<time, cur, i, j, old, returned, met, infected_at>>

\* Model.__init__, lines 111-119: one pass of the loop over range(cells).
Model_init_cell(qa, qx, qy) ==
    /\ pc = "create"
    /\ population' = Append(population,
            new_cell(Len(population), args.speed, args.initial_infections,
                     args.immune, qa, qx, qy))
    /\ pc' = IF Len(population) + 1 = args.cells THEN "idle" ELSE "create"
    /\ infected_at' = Append(infected_at,
            IF is_infected(population'[Len(population')]) THEN 0 ELSE -1)
    /\ UNCHANGED <<args, time, cur, i, j, old, returned, met>>

\* Model.tick, line 123, entering the loop of line 124.
Model_tick ==
    /\ pc = "idle"
    /\ time < MaxTime
    /\ time' = time + 1
    /\ old' = population
    /\ returned' = <<>>
    /\ cur' = 0
    /\ pc' = "move"
    /\ UNCHANGED <<args, population, i, j, met, infected_at>>

\* The first pair (a, b), a < b < n, at or after row a: the next pass of
\* the nested loops of check_contacts, <<n, n>> when there is none.
first_pair(a, n) == IF a + 1 < n THEN <<a, a + 1>> ELSE <<n, n>>

next_pair(a, b, n) == IF b + 1 < n THEN <<a, b + 1>> ELSE first_pair(a + 1, n)

\* check_contacts run to its end from the pair (a, b) on.
RECURSIVE whole_scan(_, _, _)
whole_scan(pop, a, b) ==
    IF a >= Len(pop) THEN pop
    ELSE LET near == distance2(pop[a + 1].location, pop[b + 1].location)
                        < CELL_RADIUS * CELL_RADIUS
             r    == contact_with(pop[a + 1], pop[b + 1])
             done == IF near THEN [pop EXCEPT ![a + 1] = r[1], ![b + 1] = r[2]] ELSE pop
             p    == next_pair(a, b, Len(pop))
         IN  whole_scan(done, p[1], p[2])

\* Model.tick with check_contacts() indented into its loop: a whole scan
\* after each cell's tick().
Model_tick_cell_indented ==
    /\ pc = "move"
    /\ LET ticked == [population EXCEPT ![cur + 1] = enforce_bounds(Cell_tick(@))]
           p      == first_pair(0, Len(population))
       IN  population' = whole_scan(ticked, p[1], p[2])
    /\ IF cur + 1 < Len(population)
       THEN cur' = cur + 1 /\ UNCHANGED pc
       ELSE cur' = 0 /\ pc' = "idle"
    /\ UNCHANGED <<args, time, i, j, old, returned, met, infected_at>>

\* Model.tick, lines 125-126: cell.tick() and enforce_bounds(cell) for one cell.
Model_tick_cell ==
    /\ pc = "move"
    /\ population' = [population EXCEPT ![cur + 1] = enforce_bounds(Cell_tick(@))]
    /\ IF cur + 1 < Len(population)
       THEN /\ cur' = cur + 1
            /\ UNCHANGED <<pc, i, j>>
       ELSE LET p == first_pair(0, Len(population))
            IN  /\ cur' = 0
                /\ i' = p[1]
                /\ j' = p[2]
                /\ pc' = IF p[1] < Len(population) THEN "scan" ELSE "idle"
    /\ UNCHANGED <<args, time, old, returned, met, infected_at>>

\* The test of line 162 with `<=`.
in_contact_inclusive(cell1, cell2) ==
    distance2(cell1.location, cell2.location) <= CELL_RADIUS * CELL_RADIUS

in_contact(cell1, cell2) ==
    distance2(cell1.location, cell2.location) < CELL_RADIUS * CELL_RADIUS

\* check_pair without the distance test of line 162.
check_pair_any_distance(pop, a, b) ==
    LET r == contact_with(pop[a + 1], pop[b + 1])
    IN  [pop EXCEPT ![a + 1] = r[1], ![b + 1] = r[2]]

\* check_pair deciding on the health the cells had when the scan began
\* (a scan over a copy, not in place).
check_pair_snapshot(pop, a, b) ==
    LET cell1 == enforce_bounds(Cell_tick(old[a + 1]))
        cell2 == enforce_bounds(Cell_tick(old[b + 1]))
    IN  IF in_contact(pop[a + 1], pop[b + 1])
        THEN IF is_infected(cell1) /\ is_vulnerable(cell2)
             THEN [pop EXCEPT ![b + 1] = contract_disease(@)]
             ELSE IF is_infected(cell2) /\ is_vulnerable(cell1)
                  THEN [pop EXCEPT ![a + 1] = contract_disease(@)]
                  ELSE pop
        ELSE pop

\* check_contacts, lines 160-163: the population after the pass for (a, b), 0-based.
check_pair(pop, a, b) ==
    LET cell1 == pop[a + 1]
        cell2 == pop[b + 1]
    IN  IF in_contact(cell1, cell2)
        THEN LET r == contact_with(cell1, cell2)
             IN  [pop EXCEPT ![a + 1] = r[1], ![b + 1] = r[2]]
        ELSE pop

\* The cells of the pair (a, b) that line 162 finds within CELL_RADIUS of an
\* infected partner, before contact_with runs.
exposed_by(pop, a, b) ==
    IF in_contact(pop[a + 1], pop[b + 1])
    THEN (IF is_infected(pop[a + 1]) THEN {b} ELSE {})
         \cup (IF is_infected(pop[b + 1]) THEN {a} ELSE {})
    ELSE {}

\* check_contacts: one pass of the inner loop.
Model_check_contacts ==
    /\ pc = "scan"
    /\ population' = check_pair(population, i, j)
    /\ LET p == next_pair(i, j, Len(population))
       IN  IF p[1] < Len(population)
           THEN i' = p[1] /\ j' = p[2] /\ UNCHANGED pc
           ELSE i' = 0 /\ j' = 0 /\ pc' = "idle"
    /\ met' = met \cup exposed_by(population, i, j)
    /\ infected_at' = [n \in DOMAIN infected_at |->
            IF is_vulnerable(population[n]) /\ is_infected(population'[n])
            THEN time ELSE infected_at[n]]
    /\ UNCHANGED <<args, time, cur, old, returned>>

\* A call of is_complete() between two ticks.
Model_is_complete ==
    /\ pc = "idle"
    /\ returned' = <<is_complete(population)>>
    /\ UNCHANGED <<pc, args, population, time, cur, i, j, old, met, infected_at>>

Next ==
    \/ /\ pc = "new"
       /\ \E cells \in 0 .. MaxCells, speed \in Speeds,
             initial_infections \in -1 .. MaxCells, immune \in -1 .. MaxCells :
               Model_init(cells, speed, initial_infections, immune)
    \/ /\ pc = "create"
       /\ \E qa \in AngleDraws, qx \in XDraws, qy \in YDraws : Model_init_cell(qa, qx, qy)
    \/ Model_tick
    \/ Model_tick_cell
    \/ Model_check_contacts
    \/ Model_is_complete

Spec == Init /\ [][Next]_vars

----------------------------------------------------------------------------
(* The stationary scenario: Model(5, 0.0, 4) with the start locations set  *)
(* so that every two cells are within CELL_RADIUS of each other.           *)

StationaryArgs == [cells |-> 5, speed |-> 0, initial_infections |-> 4, immune |-> 0]

StationaryPopulations ==
    { pop \in { [n \in 1 .. StationaryArgs.cells |->
                    new_cell(n - 1, StationaryArgs.speed,
                             StationaryArgs.initial_infections, StationaryArgs.immune,
                             qa, qx[n], qy)] :
                 qx \in [1 .. StationaryArgs.cells -> XDraws],
                 qy \in YDraws, qa \in AngleDraws } :
        \A n, m \in DOMAIN pop : in_contact(pop[n], pop[m]) }

InitStationary ==
    /\ pc = "idle"
    /\ args = StationaryArgs
    /\ population \in StationaryPopulations
    /\ time = 0
    /\ cur = 0
    /\ i = 0
    /\ j = 0
    /\ old = <<>>
    /\ returned = <<>>
    /\ met = {}
    /\ infected_at = first_seen(population)

NextStationary ==
    \/ Model_tick
    \/ Model_tick_cell
    \/ Model_check_contacts
    \/ Model_is_complete

SpecStationary == InitStationary /\ [][NextStationary]_vars

----------------------------------------------------------------------------
(* contact_with alone, on two cells of any health.                         *)

HealthValues == {IMMUNE, VULNERABLE} \cup (INFECTED .. RECOVERY_PERIOD)

SomeCells ==
    { [location |-> random_location(qx, qy),
       direction |-> random_direction(speed, qa),
       sickness |-> h] :
         qx \in XDraws, qy \in YDraws, speed \in Speeds, qa \in AngleDraws,
         h \in HealthValues }

InitContact ==
    /\ pc = "contact"
    /\ args = NoArgs
    /\ \E self \in SomeCells, other \in SomeCells : population = <<self, other>>
    /\ time = 0
    /\ cur = 0
    /\ i = 0
    /\ j = 0
    /\ old = <<>>
    /\ returned = <<>>
    /\ met = {}
    /\ infected_at = first_seen(population)

\* population[1].contact_with(population[2])
Cell_contact_with ==
    /\ pc = "contact"
    /\ old' = population
    /\ population' = contact_with(population[1], population[2])
    /\ pc' = "contacted"
    /\ UNCHANGED <<args, time, cur, i, j, returned, met, infected_at>>

SpecContact == InitContact /\ [][Cell_contact_with]_vars

----------------------------------------------------------------------------
(* tick() on three stationary cells of any health, placed on the drawn     *)
(* locations: the population list set up by hand, as a test does.          *)

ScanPopulations ==
    { [n \in 1 .. 3 |->
          [location |-> random_location(qx[n], qy),
           direction |-> Point(0, 0),
           sickness |-> h[n]]] :
        qx \in [1 .. 3 -> XDraws], qy \in YDraws, h \in [1 .. 3 -> HealthValues] }

InitScan ==
    /\ pc = "idle"
    /\ args = NoArgs
    /\ population \in ScanPopulations
    /\ time = 0
    /\ cur = 0
    /\ i = 0
    /\ j = 0
    /\ old = <<>>
    /\ returned = <<>>
    /\ met = {}
    /\ infected_at = first_seen(population)

SpecScan == InitScan /\ [][NextStationary]_vars

----------------------------------------------------------------------------
(* enforce_bounds alone, on a cell anywhere on or one step around the      *)
(* bounds, with any direction of components -1, 0, 1.                      *)

CellsNearBounds ==
    { [location |-> Point(x, y), direction |-> Point(dx, dy), sickness |-> h] :
        x \in (MIN_X - 1) .. (MAX_X + 1), y \in (MIN_Y - 1) .. (MAX_Y + 1),
        dx \in {-1, 0, 1}, dy \in {-1, 0, 1}, h \in HealthValues }

InitBounds ==
    /\ pc = "bounds"
    /\ args = NoArgs
    /\ \E cell \in CellsNearBounds : population = <<cell>>
    /\ time = 0
    /\ cur = 0
    /\ i = 0
    /\ j = 0
    /\ old = <<>>
    /\ returned = <<>>
    /\ met = {}
    /\ infected_at = first_seen(population)

\* self.enforce_bounds(population[0])
Model_enforce_bounds ==
    /\ pc = "bounds"
    /\ old' = population
    /\ population' = <<enforce_bounds(population[1])>>
    /\ pc' = "bounced"
    /\ UNCHANGED <<args, time, cur, i, j, returned, met, infected_at>>

SpecBounds == InitBounds /\ [][Model_enforce_bounds]_vars

----------------------------------------------------------------------------
(* The vocabulary of the claims: the three bands of the sickness counter.  *)

Susceptible(cell) == cell.sickness = VULNERABLE

Infected(cell) == INFECTED <= cell.sickness /\ cell.sickness <= RECOVERY_PERIOD

Immune(cell) == cell.sickness = IMMUNE

\* The cells, 1-based.
Cells == 1 .. Len(population)

\* Model.__init__ has returned and tick() was never called.
Constructed == pc = "idle" /\ time = 0

----------------------------------------------------------------------------
(* C1: Model.__init__ raises if and only if initial_infections <= 0, or    *)
(* initial_infections >= cells, or immune < 0, or immune >= cells; every   *)
(* other call succeeds; and a call that raises has created no cell.        *)
C1_ConstructionFailsIff ==
    pc # "new" =>
        /\ pc = "failed" <=>
              \/ args.initial_infections <= 0
              \/ args.initial_infections >= args.cells
              \/ args.immune < 0
              \/ args.immune >= args.cells
        /\ pc = "failed" => population = <<>>
        /\ pc = "idle" => Len(population) = args.cells

\* A call that raises on the immune argument alone.
C1_Witness ==
    /\ pc = "failed"
    /\ args.initial_infections > 0
    /\ args.initial_infections < args.cells
    /\ args.immune >= args.cells
    /\ population = <<>>

(* C2: after a valid construction the population has `cells` cells, the    *)
(* first initial_infections of them are Infected and the others that are   *)
(* not forced immune are Susceptible, also when immune > 0.                *)
C2_FirstInfectedRestSusceptible ==
    Constructed =>
        /\ Len(population) = args.cells
        /\ \A n \in Cells :
              /\ n - 1 < args.initial_infections => Infected(population[n])
              /\ (n - 1 >= args.initial_infections /\ n - 1 >= args.immune)
                    => Susceptible(population[n])

(* C3: the constructor applies the infected check first and the immune     *)
(* check second, so after a valid construction the Immune cells are        *)
(* exactly those of index < immune, the Infected ones exactly those with   *)
(* immune <= index < initial_infections, and all others are Susceptible.   *)
C3_ImmuneOverridesInfected ==
    Constructed =>
        \A n \in Cells :
            /\ Immune(population[n]) <=> n - 1 < args.immune
            /\ Infected(population[n]) <=>
                  (args.immune <= n - 1 /\ n - 1 < args.initial_infections)
            /\ Susceptible(population[n]) <=>
                  (n - 1 >= args.immune /\ n - 1 >= args.initial_infections)

\* Overlapping ranges: cell 0 is Immune although 0 < initial_infections.
C3_Witness ==
    /\ Constructed
    /\ args.immune > 0
    /\ args.immune < args.initial_infections
    /\ Immune(population[1])
    /\ Infected(population[args.initial_infections])
    /\ Susceptible(population[args.cells])

(* C4: health only moves forward, Susceptible -> Infected -> Immune: in    *)
(* every step of every tick() an Immune cell stays Immune, an Infected     *)
(* cell does not become Susceptible, and a Susceptible cell does not       *)
(* become Immune without being Infected first.                             *)
C4_HealthMonotone ==
    [][\A n \in (DOMAIN population) \cap (DOMAIN population') :
          /\ Immune(population[n]) => Immune(population'[n])
          /\ Infected(population[n]) => ~Susceptible(population'[n])
          /\ Susceptible(population[n]) => ~Immune(population'[n])]_vars

\* After a tick: a cell that started Susceptible was infected by contact and
\* recovered in this tick, and a cell that was Immune before the tick still is.
C4_Witness ==
    /\ pc = "idle"
    /\ time > 1
    /\ \E n \in Cells :
          /\ n - 1 >= args.initial_infections
          /\ n - 1 >= args.immune
          /\ Infected(old[n])
          /\ Immune(population[n])
    /\ \E n \in Cells : Immune(old[n]) /\ Immune(population[n])

(* C5: a tick() adds exactly 1 to the counter of a cell that was Infected  *)
(* when it was called (no contact resets or lowers it), or, when that      *)
(* exceeds RECOVERY_PERIOD, makes the cell Immune in the same tick(); no   *)
(* cell has a counter above RECOVERY_PERIOD between two ticks.             *)
C5_CounterAdvancesByOne ==
    /\ pc \in {"idle", "scan"} /\ time > 0 =>
          \A n \in Cells :
              Infected(old[n]) =>
                  IF old[n].sickness + 1 > RECOVERY_PERIOD
                  THEN Immune(population[n])
                  ELSE population[n].sickness = old[n].sickness + 1
    /\ \A n \in Cells : population[n].sickness <= RECOVERY_PERIOD

\* After a tick: one cell aged by 1 while in contact with another infected
\* cell, and one cell recovered.
C5_Witness ==
    /\ pc = "idle"
    /\ time > 0
    /\ \E n, m \in Cells :
          /\ n # m
          /\ Infected(old[n])
          /\ population[n].sickness = old[n].sickness + 1
          /\ Infected(population[m])
          /\ in_contact(population[n], population[m])
    /\ \E n \in Cells : old[n].sickness = RECOVERY_PERIOD /\ Immune(population[n])

(* C6: contact_with changes something only when one cell is Infected and   *)
(* the other Susceptible: then the Susceptible one becomes Infected with   *)
(* counter INFECTED and the Infected one is unchanged; for every other     *)
(* pair of healths nothing changes; locations and directions never change. *)
C6_ContactRule ==
    pc = "contacted" =>
        LET self   == old[1]
            other  == old[2]
            self2  == population[1]
            other2 == population[2]
        IN  /\ Len(population) = 2
            /\ self2.location = self.location /\ self2.direction = self.direction
            /\ other2.location = other.location /\ other2.direction = other.direction
            /\ IF Infected(self) /\ Susceptible(other)
               THEN self2 = self /\ other2.sickness = INFECTED
               ELSE IF Infected(other) /\ Susceptible(self)
               THEN other2 = other /\ self2.sickness = INFECTED
               ELSE self2 = self /\ other2 = other

\* The elif branch: self was Susceptible, other Infected for a while.
C6_Witness ==
    /\ pc = "contacted"
    /\ Susceptible(old[1])
    /\ old[2].sickness = RECOVERY_PERIOD
    /\ population[1].sickness = INFECTED
    /\ population[2] = old[2]

\* What Model.__init__ made of cell n (1-based), by C3.
InitiallyInfected(n) == args.immune <= n - 1 /\ n - 1 < args.initial_infections

InitiallySusceptible(n) == n - 1 >= args.immune /\ n - 1 >= args.initial_infections

NoneInfected == \A n \in Cells : ~Infected(population[n])

\* The tick by which the claims say the simulation is complete.
CompletionBound == Len(population) * (RECOVERY_PERIOD - INFECTED + 1)

(* C7: whatever the start locations and directions, the simulation is      *)
(* complete no later than tick cells * (RECOVERY_PERIOD - INFECTED + 1).   *)
C7_CompleteWithinBound ==
    (pc = "idle" /\ time >= CompletionBound) => is_complete(population)

\* Moving cells at the bound: a cell that started Susceptible caught the
\* disease and recovered.
C7_Witness ==
    /\ pc = "idle"
    /\ time = CompletionBound
    /\ args.speed # 0
    /\ is_complete(population)
    /\ \E n \in Cells : InitiallySusceptible(n) /\ Immune(population[n])
    /\ \E n \in Cells : InitiallySusceptible(n) /\ Susceptible(population[n])

(* C8: in the stationary scenario no location ever changes, the one        *)
(* Susceptible cell is infected in the first tick(), and is_complete() is  *)
(* true after at most RECOVERY_PERIOD + 1 ticks.                           *)
C8_StationaryCompletes ==
    /\ old # <<>> => \A n \in Cells : population[n].location = old[n].location
    /\ (pc = "idle" /\ time = 1) =>
          population[StationaryArgs.cells].sickness = INFECTED
    /\ (pc = "idle" /\ time >= 1) => ~Susceptible(population[StationaryArgs.cells])
    /\ (pc = "idle" /\ time >= RECOVERY_PERIOD + 1) => is_complete(population)

\* The last cell recovers in tick RECOVERY_PERIOD + 1 and is_complete() says so.
C8_Witness ==
    /\ pc = "idle"
    /\ time = RECOVERY_PERIOD + 1
    /\ Infected(old[StationaryArgs.cells])
    /\ Immune(population[StationaryArgs.cells])
    /\ returned = <<TRUE>>

(* C9, as claimed: with speed 0, an Infected and a Susceptible cell at the *)
(* start, and a Susceptible cell that is never within CELL_RADIUS of an    *)
(* Infected one, is_complete() is false after every number of ticks.       *)
C9_IncompleteForever ==
    ( /\ pc = "idle"
      /\ args.speed = 0
      /\ \E n \in Cells : InitiallyInfected(n)
      /\ \E n \in Cells : InitiallySusceptible(n) /\ (n - 1) \notin met )
    => ~is_complete(population)

(* C9, amended: with speed 0, a cell that started Susceptible and was      *)
(* never within CELL_RADIUS of an Infected cell stays Susceptible after    *)
(* every number of ticks, but is_complete() does not stay false: it is     *)
(* true from tick cells * (RECOVERY_PERIOD - INFECTED + 1) on at the       *)
(* latest, with that cell still Susceptible.                               *)
C9_IsolatedStaysSusceptible ==
    (pc = "idle" /\ args.speed = 0) =>
        \A n \in Cells :
            (InitiallySusceptible(n) /\ (n - 1) \notin met) =>
                /\ Susceptible(population[n])
                /\ time >= CompletionBound => NoneInfected /\ is_complete(population)

\* Stationary, complete, and a cell no infected cell ever came near is still Susceptible.
C9_Witness ==
    /\ pc = "idle"
    /\ args.speed = 0
    /\ time >= CompletionBound
    /\ is_complete(population)
    /\ \E n \in Cells : InitiallyInfected(n) /\ Immune(population[n])
    /\ \E n \in Cells :
          InitiallySusceptible(n) /\ (n - 1) \notin met /\ Susceptible(population[n])

(* C10: is_complete() is true exactly when no cell is Infected, whatever   *)
(* the time and however many cells are Susceptible or Immune, and a call   *)
(* of it changes nothing of the model.                                     *)
C10_CompleteIffNoInfected ==
    /\ [](/\ is_complete(population) <=> NoneInfected
          /\ returned # <<>> => returned[1] = NoneInfected)
    /\ [][returned' # returned /\ returned' # <<>> =>
            /\ returned'[1] = is_complete(population)
            /\ UNCHANGED <<pc, args, population, time, cur, i, j>>]_vars

\* is_complete() returned TRUE after some ticks with Susceptible cells left.
C10_Witness ==
    /\ pc = "idle"
    /\ time > 0
    /\ time < CompletionBound
    /\ returned = <<TRUE>>
    /\ \E n \in Cells : Susceptible(population[n])
    /\ \E n \in Cells : Immune(population[n])

(* C11: in every state the constructor and tick() reach, each cell's       *)
(* counter is in exactly one of the three bands (VULNERABLE;               *)
(* INFECTED..RECOVERY_PERIOD; IMMUNE), exactly one of is_vulnerable,       *)
(* is_infected, is_immune holds, and color() returns red, gray or green,   *)
(* never nothing.                                                          *)
C11_ThreeBands ==
    \A n \in Cells :
        LET cell == population[n]
        IN  /\ Cardinality({b \in {"S", "I", "M"} :
                    \/ b = "S" /\ Susceptible(cell)
                    \/ b = "I" /\ Infected(cell)
                    \/ b = "M" /\ Immune(cell)}) = 1
            /\ is_vulnerable(cell) <=> Susceptible(cell)
            /\ is_infected(cell) <=> Infected(cell)
            /\ is_immune(cell) <=> Immune(cell)
            /\ color(cell) = (IF Infected(cell) THEN RED
                               ELSE IF Susceptible(cell) THEN GRAY ELSE GREEN)

\* After some ticks, with a red, a gray and a green cell.
C11_Witness ==
    /\ pc = "idle"
    /\ time > RECOVERY_PERIOD
    /\ \E n \in Cells : color(population[n]) = RED
    /\ \E n \in Cells : color(population[n]) = GRAY
    /\ \E n \in Cells : color(population[n]) = GREEN /\ InitiallyInfected(n)

(* C12: enforce_bounds negates direction.x exactly when location.x is      *)
(* strictly above MAX_X or strictly below MIN_X, and direction.y exactly   *)
(* when location.y is strictly outside [MIN_Y, MAX_Y], each independently  *)
(* of the other; it changes neither location nor sickness, and a cell on a *)
(* bound is not reflected.                                                 *)
C12_ReflectStrictlyOutside ==
    pc = "bounced" =>
        LET before == old[1]
            after  == population[1]
            out_x  == before.location.x > MAX_X \/ before.location.x < MIN_X
            out_y  == before.location.y > MAX_Y \/ before.location.y < MIN_Y
        IN  /\ after.location = before.location
            /\ after.sickness = before.sickness
            /\ after.direction.x =
                  (IF out_x THEN 0 - before.direction.x ELSE before.direction.x)
            /\ after.direction.y =
                  (IF out_y THEN 0 - before.direction.y ELSE before.direction.y)
            /\ (before.location.x = MAX_X \/ before.location.x = MIN_X)
                  => after.direction.x = before.direction.x
            /\ (before.location.y = MAX_Y \/ before.location.y = MIN_Y)
                  => after.direction.y = before.direction.y

\* On the x bound and below the y bound while moving on both axes: only y is negated.
C12_Witness ==
    /\ pc = "bounced"
    /\ old[1].location = Point(MAX_X, MIN_Y - 1)
    /\ old[1].direction = Point(1, -1)
    /\ population[1].direction = Point(1, 1)
    /\ population[1].location = old[1].location

\* The number of states between ticks in which a cell is Infected.
InfectedTicks == RECOVERY_PERIOD - INFECTED + 1

(* C13: a cell that is Infected when the constructor returns (tick 0) or   *)
(* becomes Infected by contact in tick t is Infected at the end of exactly *)
(* the RECOVERY_PERIOD - INFECTED + 1 ticks t, t+1, ... whatever it is in  *)
(* contact with, and Immune at the end of every later tick; a cell never   *)
(* infected is never Infected.                                             *)
C13_InfectedForFixedTicks ==
    pc = "idle" =>
        \A n \in Cells :
            IF infected_at[n] >= 0
            THEN /\ Infected(population[n]) <=> time < infected_at[n] + InfectedTicks
                 /\ Immune(population[n]) <=> time >= infected_at[n] + InfectedTicks
            ELSE ~Infected(population[n])

\* A cell infected by contact after the start is in the last of its
\* infected ticks, next to another infected cell, and the cell that was
\* infected from the start has recovered.
C13_Witness ==
    /\ pc = "idle"
    /\ \E n, m, k \in Cells :
          /\ infected_at[n] > 0
          /\ time = infected_at[n] + InfectedTicks - 1
          /\ Infected(population[n])
          /\ m # n
          /\ Infected(population[m])
          /\ in_contact(population[n], population[m])
          /\ infected_at[k] = 0
          /\ Immune(population[k])

\* Cell n of `old` after its cell.tick() and enforce_bounds.
Moved(n) == enforce_bounds(Cell_tick(old[n]))

(* C14: the motion loop and the contact scan of a tick() do not            *)
(* interleave: while the loop runs, the cells it has passed are moved and  *)
(* updated, the others are as they were, and no contact has touched any    *)
(* of them; while the scan runs, and after it, every cell has this tick's  *)
(* location and direction, and its updated health unless a contact of      *)
(* this scan infected it.                                                  *)
C14_PhasesSequential ==
    /\ pc = "move" =>
          \A n \in Cells :
              population[n] = (IF n <= cur THEN Moved(n) ELSE old[n])
    /\ (pc = "scan" \/ (pc = "idle" /\ time > 0)) =>
          \A n \in Cells :
              /\ population[n].location = add(old[n].location, old[n].direction)
              /\ population[n].direction = Moved(n).direction
              /\ \/ population[n].sickness = Moved(n).sickness
                 \/ Susceptible(Moved(n)) /\ population[n].sickness = INFECTED

\* The scan is about to test an infected and a vulnerable cell that are
\* apart now that both have moved, and that a test made when only the
\* second of them had moved would have found within CELL_RADIUS.
C14_Witness ==
    /\ pc = "scan"
    /\ ~in_contact(population[i + 1], population[j + 1])
    /\ in_contact(old[i + 1], population[j + 1])
    /\ ~in_contact(population[i + 1], old[j + 1])
    /\ is_infected(population[i + 1])
    /\ is_vulnerable(population[j + 1])

\* Three cells in a row: 1-2 and 2-3 within CELL_RADIUS, 1-3 not.
InARow ==
    /\ Len(population) = 3
    /\ in_contact(population[1], population[2])
    /\ in_contact(population[2], population[3])
    /\ ~in_contact(population[1], population[3])

\* Infected, and still so after this tick's update.
StaysInfected(cell) == INFECTED <= cell.sickness /\ cell.sickness < RECOVERY_PERIOD

(* C15: check_contacts tests the pairs (i, j), i < j, in increasing order  *)
(* and in place. With three cells in a row: if the first is Infected and   *)
(* the others Susceptible, one tick() infects both (0-1, then 1-2); if the *)
(* last is Infected and the others Susceptible, one tick() infects only    *)
(* the middle one (0-1 is tested before 1-2), and the first one follows in *)
(* the next tick().                                                        *)
C15_ScanInOrderInPlace ==
    /\ pc = "scan" => i < j /\ j < Len(population)
    /\ (pc = "idle" /\ time > 0 /\ InARow) =>
        /\ (StaysInfected(old[1]) /\ Susceptible(old[2]) /\ Susceptible(old[3])) =>
              /\ population[2].sickness = INFECTED
              /\ population[3].sickness = INFECTED
        /\ (Susceptible(old[1]) /\ Susceptible(old[2]) /\ StaysInfected(old[3])) =>
              /\ Susceptible(population[1])
              /\ population[2].sickness = INFECTED
        /\ (Susceptible(old[1]) /\ StaysInfected(old[2])) =>
              population[1].sickness = INFECTED

\* The in-place case: after the first tick() the disease has gone from
\* cell 0 through cell 1 to cell 2.
C15_Witness ==
    /\ pc = "idle"
    /\ time = 1
    /\ InARow
    /\ StaysInfected(old[1]) /\ Susceptible(old[2]) /\ Susceptible(old[3])
    /\ population[2].sickness = INFECTED
    /\ population[3].sickness = INFECTED
    /\ met = {1, 2}

(* C16: after every successful construction some cell is Infected:         *)
(* is_complete() is false before the first tick().                         *)
C16_SomeInitiallyInfected ==
    Constructed => ~is_complete(population)

(* C17: a cell leaves Susceptible only in a pass of the contact scan for a *)
(* pair it belongs to, when its partner is Infected at that moment and     *)
(* their locations, both already moved in this tick, are strictly less     *)
(* than CELL_RADIUS apart; it then has the counter INFECTED. A cell at     *)
(* distance CELL_RADIUS or more from its partner is not infected by it.    *)
C17_NoSpontaneousInfection ==
    [][\A n \in (DOMAIN population) \cap (DOMAIN population') :
          (Susceptible(population[n]) /\ ~Susceptible(population'[n])) =>
              /\ pc = "scan"
              /\ n - 1 \in {i, j}
              /\ LET m == IF n - 1 = i THEN j + 1 ELSE i + 1
                 IN  /\ Infected(population[m])
                     /\ distance2(population[n].location, population[m].location)
                            < CELL_RADIUS * CELL_RADIUS
                     /\ population[n].location = add(old[n].location, old[n].direction)
                     /\ population[m].location = add(old[m].location, old[m].direction)
              /\ population'[n].sickness = INFECTED]_vars

\* After a tick in which a cell was infected, a cell exactly CELL_RADIUS
\* from an infected one is still Susceptible.
C17_Witness ==
    /\ pc = "idle"
    /\ time > 0
    /\ \E n, m, k \in Cells :
          /\ Susceptible(old[n])
          /\ Susceptible(population[n])
          /\ Infected(population[m])
          /\ distance2(population[n].location, population[m].location)
                 = CELL_RADIUS * CELL_RADIUS
          /\ Susceptible(old[k])
          /\ Infected(population[k])

OutsideX(cell) == cell.location.x > MAX_X \/ cell.location.x < MIN_X

OutsideY(cell) == cell.location.y > MAX_Y \/ cell.location.y < MIN_Y

(* C18: a cell that starts within the bounds is never outside them on the  *)
(* same axis at the end of two consecutive ticks: when a tick leaves it    *)
(* outside on an axis, it was inside on that axis before the tick, the     *)
(* tick has negated its direction on that axis, and the next tick's move   *)
(* takes it back to the coordinate it had before.                          *)
C18_OutsideForOneTick ==
    (pc = "idle" /\ time > 0) =>
        \A n \in Cells :
            /\ OutsideX(population[n]) =>
                  /\ ~OutsideX(old[n])
                  /\ population[n].direction.x = 0 - old[n].direction.x
                  /\ add(population[n].location, population[n].direction).x
                        = old[n].location.x
            /\ OutsideY(population[n]) =>
                  /\ ~OutsideY(old[n])
                  /\ population[n].direction.y = 0 - old[n].direction.y
                  /\ add(population[n].location, population[n].direction).y
                        = old[n].location.y

\* One cell has just left the bounds on the left, another at the top.
C18_Witness ==
    /\ pc = "idle"
    /\ \E n, m \in Cells :
          /\ population[n].location.x < MIN_X
          /\ population[n].direction.x > 0
          /\ population[m].location.y > MAX_Y
          /\ population[m].direction.y < 0

(* C19: completion is absorbing: when no cell is infected as tick() is     *)
(* called, no cell's health changes in any step of that tick or after it,  *)
(* so is_complete() stays true; only locations, directions and the time    *)
(* change.                                                                 *)
C19_CompletionAbsorbing ==
    (pc \in {"idle", "move", "scan"} /\ time > 0 /\ is_complete(old)) =>
        /\ is_complete(population)
        /\ \A n \in Cells : population[n].sickness = old[n].sickness
        /\ \A n \in Cells : infected_at[n] < time

\* Two ticks after completion: cells have moved, health has not changed.
C19_Witness ==
    /\ pc = "idle"
    /\ is_complete(old)
    /\ is_complete(population)
    /\ \E n \in Cells : infected_at[n] >= 0 /\ infected_at[n] + InfectedTicks < time
    /\ \E n \in Cells : infected_at[n] > 0
    /\ \E n \in Cells : Susceptible(population[n])
    /\ \E n \in Cells : population[n].location # old[n].location

(* C20: a cell whose counter passes RECOVERY_PERIOD in the update of tick  *)
(* t is Immune when the scan of tick t runs and infects no one in it; a    *)
(* cell infected in the scan of tick t ends tick t with the counter        *)
(* INFECTED, not incremented.                                              *)
C20_RecoverBeforeScan ==
    ((pc = "scan" \/ pc = "idle") /\ time > 0) =>
        \A n \in Cells :
            /\ (Infected(old[n]) /\ old[n].sickness + 1 > RECOVERY_PERIOD) =>
                  Immune(population[n])
            /\ (Susceptible(old[n]) /\ ~Susceptible(population[n])) =>
                  /\ population[n].sickness = INFECTED
                  /\ infected_at[n] = time
                  /\ \E m \in Cells \ {n} :
                        /\ in_contact(population[n], population[m])
                        /\ Infected(population[m])
                        /\ ~(Infected(old[m]) /\ old[m].sickness + 1 > RECOVERY_PERIOD)

\* After a tick: a cell that was infected in an earlier scan, and so ended
\* that tick with the counter INFECTED, has recovered in this tick's update
\* next to a cell that is Susceptible before and after this tick's scan.
C20_Witness ==
    /\ pc = "idle"
    /\ time > 0
    /\ \E n, m \in Cells :
          /\ infected_at[n] > 0
          /\ infected_at[n] + InfectedTicks = time
          /\ old[n].sickness = RECOVERY_PERIOD
          /\ Immune(population[n])
          /\ in_contact(population[n], population[m])
          /\ Susceptible(old[m])
          /\ Susceptible(population[m])

====
